---- MODULE Spec2Model ----
(***************************************************************************)
(* Niessbrauch-Szenario-Rechner (src/main.py).                             *)
(*                                                                         *)
(* main() reads nine parameters, runs simulate_tagesgeld, simulate_etf and *)
(* simulate_combo one after the other and hands each result list to        *)
(* print_table.  One action of the model is one iteration of a simulation  *)
(* loop, the return of a simulation, or one call of print_table.  The      *)
(* Streamlit page (src/app.py) calls the same three functions with widget  *)
(* values and is not part of the model.                                    *)
(*                                                                         *)
(* Amounts and rates are Python floats.  The model keeps the floating      *)
(* point arithmetic of the source at a reduced width: a value is a         *)
(* non-negative multiple of 2^-MantissaBits whose significand has at most  *)
(* MantissaBits bits, and every +, -, *, / and ** rounds its exact result  *)
(* to the nearest such value, ties to the even significand (IEEE 754       *)
(* round-to-nearest-even, the rounding of a Python float, which has 53     *)
(* bits).  A value v is held as the integer v * One.  Wherever a property  *)
(* below adds, subtracts or multiplies amounts it does so with the same    *)
(* rounded operations, as a test written against the program would.        *)
(***************************************************************************)
EXTENDS Integers, Sequences, FiniteSets

\* ---------------------------------------------------------------- bounds
MantissaBits == 4          \* significand width of the modelled float
MaxDepositYears == 2       \* deposit_years ranges over 0..MaxDepositYears
MaxGrowthYears == 1        \* growth_years ranges over 0..MaxGrowthYears
MaxFirstTargetYears == 2   \* years_first_target ranges over 1..MaxFirstTargetYears

\* ------------------------------------------------- floating point values
RECURSIVE Pow2(_)
Pow2(n) == IF n = 0 THEN 1 ELSE 2 * Pow2(n - 1)

\* the float 1.0
One == Pow2(MantissaBits)

Quarter == One \div 4

RECURSIVE StepOf(_, _, _)
\* spacing of the floats around num/den: the least power of two s such
\* that num/den < 2^MantissaBits * s
StepOf(num, den, s) ==
    IF num < One * s * den THEN s ELSE StepOf(num, den, 2 * s)

\* num/den (num >= 0, den > 0) rounded to the nearest float, ties to even
RoundNearestEven(num, den) ==
    LET s == StepOf(num, den, 1)
        q == den * s
        m == num \div q
        r == num - m * q
    IN  IF 2 * r > q \/ (2 * r = q /\ m % 2 = 1) THEN (m + 1) * s ELSE m * s

FAdd(a, b) == RoundNearestEven(a + b, 1)

FSub(a, b) == IF a >= b THEN RoundNearestEven(a - b, 1)
                        ELSE 0 - RoundNearestEven(b - a, 1)

FMul(a, b) == RoundNearestEven(a * b, One)

FDiv(a, b) == RoundNearestEven(a * One, b)

RECURSIVE IntPow(_, _)
IntPow(b, n) == IF n = 0 THEN 1 ELSE b * IntPow(b, n - 1)

RECURSIVE Lowest(_, _)
\* the fraction num/den with the common factors of two removed
Lowest(num, den) ==
    IF num % 2 = 0 /\ den % 2 = 0
    THEN Lowest(num \div 2, den \div 2)
    ELSE <<num, den>>

\* base ** n for a float base and an int n >= 0
FPow(base, n) ==
    LET f == Lowest(base, One)
    IN  RoundNearestEven(IntPow(f[1], n) * One, IntPow(f[2], n))

FMin(a, b) == IF a <= b THEN a ELSE b

\* --------------------------------------------------------- the program
VARIABLES
    deposit_years, growth_years, annual_deposit, tg_rate, etf_rate,
    inflation_rate, tg_target_first, tg_target_after, years_first_target,
    pc, year, tg_balance, etf_balance,
    target, deposit, alloc, remaining, excess,
    res_tg, res_etf, res_combo,
    printed, raised

params == <<deposit_years, growth_years, annual_deposit, tg_rate, etf_rate,
            inflation_rate, tg_target_first, tg_target_after,
            years_first_target>>

locals == <<target, deposit, alloc, remaining, excess>>

vars == <<params, pc, year, tg_balance, etf_balance, locals,
          res_tg, res_etf, res_combo, printed, raised>>

\* values main() can read with ask_int / ask_float
DepositYearsInputs == 0 .. MaxDepositYears
GrowthYearsInputs == 0 .. MaxGrowthYears
FirstTargetYearsInputs == 1 .. MaxFirstTargetYears
AnnualDepositInputs == {0, 10 * One, 22 * Quarter}
TgRateInputs == {0, Quarter}
EtfRateInputs == {0, Quarter, 2 * Quarter}
InflationInputs == {0, 2 * Quarter}
TargetFirstInputs == {0, 3 * Quarter, 7 * One}
TargetAfterInputs == {0, 11 * Quarter, 7 * One}

real_value(nominal, rate, y) == FDiv(nominal, FPow(FAdd(One, rate), y))

YearResult(y, dep, tg, etf, total, real) ==
    [year |-> y, deposit |-> dep, tg_balance |-> tg, etf_balance |-> etf,
     total_nominal |-> total, total_real |-> real]

TotalYears(dy, gy) == dy + gy

\* the loop written range(1, total_years): the last year is missing
YearRangeExclusive(total_years) == 1 .. (total_years - 1)

\* range(1, total_years + 1)
YearRange(total_years) == 1 .. total_years

\* deposit = annual_deposit if year <= deposit_years else 0.0
DepositOf(y, dy, amount) == IF y <= dy THEN amount ELSE 0

\* compounding before the deposit: balance * (1 + rate) + deposit
AccumulateCompoundFirst(balance, dep, rate) ==
    FAdd(FMul(balance, FAdd(One, rate)), dep)

\* balance = (balance + deposit) * (1 + rate)
Accumulate(balance, dep, rate) == FMul(FAdd(balance, dep), FAdd(One, rate))

\* the first target kept one year too long
TargetOfLate(y, first, after, years_first) ==
    IF y <= years_first + 1 THEN first ELSE after

\* target = tg_target_first if year <= years_first_target else tg_target_after
TargetOf(y, first, after, years_first) == IF y <= years_first THEN first ELSE after

\* the rest of the deposit added to the Tagesgeld instead of the ETF
ComboAllocateRestToTg(tg, etf, tgt, dep) ==
    LET fill == tg < tgt /\ dep > 0
        a == IF fill THEN FMin(dep, FSub(tgt, tg)) ELSE 0
        rest == IF fill THEN FSub(dep, a) ELSE dep
    IN  [alloc |-> a, remaining |-> rest,
         tg |-> FAdd(IF fill THEN FAdd(tg, a) ELSE tg, rest),
         etf |-> etf]

\* fill the Tagesgeld up to the target, the rest goes to the ETF
ComboAllocate(tg, etf, tgt, dep) ==
    LET fill == tg < tgt /\ dep > 0
        a == IF fill THEN FMin(dep, FSub(tgt, tg)) ELSE 0
        rest == IF fill THEN FSub(dep, a) ELSE dep
    IN  [alloc |-> a, remaining |-> rest,
         tg |-> IF fill THEN FAdd(tg, a) ELSE tg,
         etf |-> FAdd(etf, rest)]

\* tg_balance *= (1 + tg_rate); etf_balance *= (1 + etf_rate)
ComboCompound(tg, etf, tr, er) ==
    [tg |-> FMul(tg, FAdd(One, tr)), etf |-> FMul(etf, FAdd(One, er))]

\* the sweep without tg_balance = target
ComboSweepNoClamp(tg, etf, tgt) ==
    IF tg > tgt
    THEN [excess |-> FSub(tg, tgt), tg |-> tg, etf |-> FAdd(etf, FSub(tg, tgt))]
    ELSE [excess |-> 0, tg |-> tg, etf |-> etf]

\* move the Tagesgeld above the target into the ETF
ComboSweep(tg, etf, tgt) ==
    IF tg > tgt
    THEN [excess |-> FSub(tg, tgt), tg |-> tgt, etf |-> FAdd(etf, FSub(tg, tgt))]
    ELSE [excess |-> 0, tg |-> tg, etf |-> etf]

\* total_nominal = etf_balance, as in simulate_etf
ComboTotalEtfOnly(tg, etf) == etf

\* total_nominal = tg_balance + etf_balance
ComboTotal(tg, etf) == FAdd(tg, etf)

Init ==
    /\ deposit_years \in DepositYearsInputs
    /\ growth_years \in GrowthYearsInputs
    /\ annual_deposit \in AnnualDepositInputs
    /\ tg_rate \in TgRateInputs
    /\ etf_rate \in EtfRateInputs
    /\ inflation_rate \in InflationInputs
    /\ tg_target_first \in TargetFirstInputs
    /\ tg_target_after \in TargetAfterInputs
    /\ years_first_target \in FirstTargetYearsInputs
    /\ pc = "simulate_tagesgeld"
    /\ year = 1
    /\ tg_balance = 0
    /\ etf_balance = 0
    /\ target = 0 /\ deposit = 0 /\ alloc = 0 /\ remaining = 0 /\ excess = 0
    /\ res_tg = <<>> /\ res_etf = <<>> /\ res_combo = <<>>
    /\ printed = <<>>
    /\ raised = "none"

\* one iteration of the loop of simulate_tagesgeld
TagesgeldIter ==
    /\ pc = "simulate_tagesgeld"
    /\ year \in YearRange(TotalYears(deposit_years, growth_years))
    /\ LET dep == DepositOf(year, deposit_years, annual_deposit)
           bal == Accumulate(tg_balance, dep, tg_rate)
       IN  /\ deposit' = dep
           /\ tg_balance' = bal
           /\ res_tg' = Append(res_tg,
                 YearResult(year, dep, bal, 0, bal,
                            real_value(bal, inflation_rate, year)))
    /\ year' = year + 1
    /\ UNCHANGED <<params, pc, etf_balance, target, alloc, remaining, excess,
                   res_etf, res_combo, printed, raised>>

\* simulate_tagesgeld returns; main() calls simulate_etf
TagesgeldReturn ==
    /\ pc = "simulate_tagesgeld"
    /\ year \notin YearRange(TotalYears(deposit_years, growth_years))
    /\ pc' = "simulate_etf"
    /\ year' = 1
    /\ tg_balance' = 0 /\ etf_balance' = 0
    /\ UNCHANGED <<params, locals, res_tg, res_etf, res_combo, printed, raised>>

\* one iteration of the loop of simulate_etf
EtfIter ==
    /\ pc = "simulate_etf"
    /\ year \in YearRange(TotalYears(deposit_years, growth_years))
    /\ LET dep == DepositOf(year, deposit_years, annual_deposit)
           bal == Accumulate(etf_balance, dep, etf_rate)
       IN  /\ deposit' = dep
           /\ etf_balance' = bal
           /\ res_etf' = Append(res_etf,
                 YearResult(year, dep, 0, bal, bal,
                            real_value(bal, inflation_rate, year)))
    /\ year' = year + 1
    /\ UNCHANGED <<params, pc, tg_balance, target, alloc, remaining, excess,
                   res_tg, res_combo, printed, raised>>

\* simulate_etf returns; main() calls simulate_combo
EtfReturn ==
    /\ pc = "simulate_etf"
    /\ year \notin YearRange(TotalYears(deposit_years, growth_years))
    /\ pc' = "simulate_combo"
    /\ year' = 1
    /\ tg_balance' = 0 /\ etf_balance' = 0
    /\ UNCHANGED <<params, locals, res_tg, res_etf, res_combo, printed, raised>>

\* one iteration of the loop of simulate_combo
ComboIter ==
    /\ pc = "simulate_combo"
    /\ year \in YearRange(TotalYears(deposit_years, growth_years))
    /\ LET tgt == TargetOf(year, tg_target_first, tg_target_after,
                           years_first_target)
           dep == DepositOf(year, deposit_years, annual_deposit)
           a == ComboAllocate(tg_balance, etf_balance, tgt, dep)
           c == ComboCompound(a.tg, a.etf, tg_rate, etf_rate)
           s == ComboSweep(c.tg, c.etf, tgt)
           total == ComboTotal(s.tg, s.etf)
       IN  /\ target' = tgt
           /\ deposit' = dep
           /\ alloc' = a.alloc
           /\ remaining' = a.remaining
           /\ excess' = s.excess
           /\ tg_balance' = s.tg
           /\ etf_balance' = s.etf
           /\ res_combo' = Append(res_combo,
                 YearResult(year, dep, s.tg, s.etf, total,
                            real_value(total, inflation_rate, year)))
    /\ year' = year + 1
    /\ UNCHANGED <<params, pc, res_tg, res_etf, printed, raised>>

\* simulate_combo returns; main() starts printing
ComboReturn ==
    /\ pc = "simulate_combo"
    /\ year \notin YearRange(TotalYears(deposit_years, growth_years))
    /\ pc' = "print_tg"
    /\ UNCHANGED <<params, year, tg_balance, etf_balance, locals,
                   res_tg, res_etf, res_combo, printed, raised>>

RECURSIVE SumDeposits(_, _)
\* sum(r.deposit for r in results), added from the left starting at 0
SumDeposits(results, n) ==
    IF n = 0 THEN 0 ELSE FAdd(SumDeposits(results, n - 1), results[n].deposit)

ResultsToPrint == CASE pc = "print_tg" -> res_tg
                    [] pc = "print_etf" -> res_etf
                    [] OTHER -> res_combo

NextPrint == CASE pc = "print_tg" -> "print_etf"
               [] pc = "print_etf" -> "print_combo"
               [] OTHER -> "done"

\* print_table(results, ...): results[-1] raises IndexError on an empty list
PrintTable ==
    /\ pc \in {"print_tg", "print_etf", "print_combo"}
    /\ LET results == ResultsToPrint
       IN  IF Len(results) = 0
           THEN /\ raised' = "IndexError"
                /\ pc' = "aborted"
                /\ UNCHANGED printed
           ELSE /\ printed' = Append(printed,
                     [rows |-> Len(results),
                      total_deposits |-> SumDeposits(results, Len(results)),
                      final_nominal |-> results[Len(results)].total_nominal,
                      final_real |-> results[Len(results)].total_real])
                /\ pc' = NextPrint
                /\ UNCHANGED raised
    /\ UNCHANGED <<params, year, tg_balance, etf_balance, locals,
                   res_tg, res_etf, res_combo>>

Next ==
    \/ TagesgeldIter
    \/ TagesgeldReturn
    \/ EtfIter
    \/ EtfReturn
    \/ ComboIter
    \/ ComboReturn
    \/ PrintTable

Spec == Init /\ [][Next]_vars


\* ------------------------------------------------------------ properties
N == deposit_years + growth_years

\* the simulations that have returned
TagesgeldReturned == pc # "simulate_tagesgeld"
EtfReturned == pc \notin {"simulate_tagesgeld", "simulate_etf"}
ComboReturned == pc \notin {"simulate_tagesgeld", "simulate_etf", "simulate_combo"}

\* the deposit and the Tagesgeld target of year y, written out from the
\* parameters
DepositInYear(y) == IF y <= deposit_years THEN annual_deposit ELSE 0
TargetInYear(y) == IF y <= years_first_target THEN tg_target_first
                                              ELSE tg_target_after

\* balances before the iteration that produced snapshot i
PrevTg(results, i) == IF i = 1 THEN 0 ELSE results[i - 1].tg_balance
PrevEtf(results, i) == IF i = 1 THEN 0 ELSE results[i - 1].etf_balance

YearsInOrder(results) == \A i \in 1 .. Len(results) : results[i].year = i

\* C1: each simulation returns exactly deposit_years + growth_years
\* snapshots, and the year fields are 1, 2, ..., N in that order.
C1_LengthAndYears ==
    /\ YearsInOrder(res_tg) /\ YearsInOrder(res_etf) /\ YearsInOrder(res_combo)
    /\ TagesgeldReturned => Len(res_tg) = N
    /\ EtfReturned => Len(res_etf) = N
    /\ ComboReturned => Len(res_combo) = N

C1_Witness ==
    /\ ComboReturned
    /\ deposit_years >= 1 /\ growth_years >= 1
    /\ Len(res_tg) >= 2 /\ Len(res_etf) >= 2 /\ Len(res_combo) >= 2

\* C2: in every snapshot total_nominal equals tg_balance + etf_balance;
\* etf_balance is 0 in every Tagesgeld snapshot and tg_balance is 0 in
\* every ETF snapshot.
C2_TotalIsSum ==
    /\ \A i \in 1 .. Len(res_tg) :
          /\ res_tg[i].etf_balance = 0
          /\ res_tg[i].total_nominal =
                FAdd(res_tg[i].tg_balance, res_tg[i].etf_balance)
    /\ \A i \in 1 .. Len(res_etf) :
          /\ res_etf[i].tg_balance = 0
          /\ res_etf[i].total_nominal =
                FAdd(res_etf[i].tg_balance, res_etf[i].etf_balance)
    /\ \A i \in 1 .. Len(res_combo) :
          res_combo[i].total_nominal =
                FAdd(res_combo[i].tg_balance, res_combo[i].etf_balance)

C2_Witness ==
    /\ Len(res_tg) >= 1 /\ Len(res_etf) >= 1 /\ Len(res_combo) >= 2
    /\ res_combo[Len(res_combo)].tg_balance > 0
    /\ res_combo[Len(res_combo)].etf_balance > 0
    /\ excess > 0

\* C3: in every year of the combination the part of the deposit put into
\* the Tagesgeld is min(deposit, target - tg_balance) when the Tagesgeld is
\* below the target and the deposit is positive, and 0 otherwise; the rest
\* goes to the ETF, and the two parts sum to the deposit.
C3_AllocationSplitsDeposit ==
    Len(res_combo) >= 1 =>
        LET i == Len(res_combo)
            pre == PrevTg(res_combo, i)
            tgt == TargetInYear(i)
            dep == DepositInYear(i)
        IN  /\ alloc = IF pre < tgt /\ dep > 0
                       THEN FMin(dep, FSub(tgt, pre)) ELSE 0
            /\ res_combo[i].etf_balance =
                  FAdd(FMul(FAdd(PrevEtf(res_combo, i), remaining),
                            FAdd(One, etf_rate)),
                       excess)
            /\ FAdd(alloc, remaining) = dep

\* C3, the part that holds: alloc is as stated, the rest is the rounded
\* difference deposit - alloc and is what the ETF receives, and the parts
\* sum to the deposit whenever one of them is the whole deposit.
C3_AllocationRule ==
    Len(res_combo) >= 1 =>
        LET i == Len(res_combo)
            pre == PrevTg(res_combo, i)
            tgt == TargetInYear(i)
            dep == DepositInYear(i)
        IN  /\ alloc = IF pre < tgt /\ dep > 0
                       THEN FMin(dep, FSub(tgt, pre)) ELSE 0
            /\ remaining = FSub(dep, alloc)
            /\ res_combo[i].etf_balance =
                  FAdd(FMul(FAdd(PrevEtf(res_combo, i), remaining),
                            FAdd(One, etf_rate)),
                       excess)
            /\ (alloc = 0 \/ alloc = dep) => FAdd(alloc, remaining) = dep

\* C4: every snapshot of the combination has tg_balance at most the target
\* of its year, hence at most max(target, target * (1 + tg_rate)).
C4_TgAtMostTarget ==
    \A i \in 1 .. Len(res_combo) :
        LET tgt == TargetInYear(i)
            grown == FMul(tgt, FAdd(One, tg_rate))
        IN  /\ res_combo[i].tg_balance <= tgt
            /\ res_combo[i].tg_balance <= IF tgt >= grown THEN tgt ELSE grown

C4_Witness ==
    /\ Len(res_combo) >= 2
    /\ tg_rate > 0
    /\ excess > 0
    /\ res_combo[Len(res_combo)].tg_balance = TargetInYear(Len(res_combo))
    /\ TargetInYear(Len(res_combo)) > 0

\* C5: when tg_target_after < tg_target_first and the Tagesgeld at the end
\* of year years_first_target exceeds tg_target_after, the snapshot of the
\* next year already has tg_balance = tg_target_after, the whole excess is
\* in the ETF of that year, and no later year holds more than the target.
C5_SweepAtPhaseChange ==
    LET p == years_first_target
    IN  (/\ tg_target_after < tg_target_first
         /\ Len(res_combo) >= p + 1
         /\ res_combo[p].tg_balance > tg_target_after)
        =>
        /\ res_combo[p + 1].tg_balance = tg_target_after
        /\ res_combo[p + 1].etf_balance =
              FAdd(FMul(FAdd(res_combo[p].etf_balance, DepositInYear(p + 1)),
                        FAdd(One, etf_rate)),
                   FSub(FMul(res_combo[p].tg_balance, FAdd(One, tg_rate)),
                        tg_target_after))
        /\ \A j \in (p + 1) .. Len(res_combo) :
              res_combo[j].tg_balance <= tg_target_after

C5_Witness ==
    /\ tg_target_after < tg_target_first
    /\ tg_target_after > 0
    /\ Len(res_combo) >= years_first_target + 1
    /\ res_combo[years_first_target].tg_balance > tg_target_after
    /\ res_combo[years_first_target + 1].tg_balance = tg_target_after

NonDecreasing(results) ==
    \A i \in 2 .. Len(results) :
        results[i].total_nominal >= results[i - 1].total_nominal

\* C6: total_nominal is non-decreasing from each snapshot to the next in
\* all three simulations (all inputs of the model are non-negative).
C6_TotalNonDecreasing ==
    NonDecreasing(res_tg) /\ NonDecreasing(res_etf) /\ NonDecreasing(res_combo)

\* C7: with deposit_years + growth_years = 0 every simulation returns an
\* empty list and print_table handles it without raising.
C7_EmptyResultTolerated ==
    N = 0 =>
        /\ TagesgeldReturned => res_tg = <<>>
        /\ EtfReturned => res_etf = <<>>
        /\ ComboReturned => res_combo = <<>>
        /\ raised = "none"

\* C8: in the Tagesgeld and ETF simulations the balance of year y is
\* (balance of year y-1, or 0, plus the deposit of year y) * (1 + rate),
\* and the deposit field is annual_deposit up to deposit_years and 0 after.
C8_DepositThenCompound ==
    /\ \A i \in 1 .. Len(res_tg) :
          /\ res_tg[i].deposit = DepositInYear(i)
          /\ res_tg[i].tg_balance =
                FMul(FAdd(PrevTg(res_tg, i), DepositInYear(i)),
                     FAdd(One, tg_rate))
    /\ \A i \in 1 .. Len(res_etf) :
          /\ res_etf[i].deposit = DepositInYear(i)
          /\ res_etf[i].etf_balance =
                FMul(FAdd(PrevEtf(res_etf, i), DepositInYear(i)),
                     FAdd(One, etf_rate))

C8_Witness ==
    /\ EtfReturned
    /\ annual_deposit > 0 /\ tg_rate > 0 /\ etf_rate > 0
    /\ deposit_years >= 1 /\ growth_years >= 1
    /\ res_etf[N].deposit = 0
    /\ res_tg[1].tg_balance > annual_deposit

\* C9: with both targets 0 the whole deposit of every year goes to the
\* ETF, the sweep moves nothing, and tg_balance is 0 in every snapshot.
C9_ZeroTarget ==
    (tg_target_first = 0 /\ tg_target_after = 0) =>
        /\ \A i \in 1 .. Len(res_combo) :
              /\ res_combo[i].tg_balance = 0
              /\ res_combo[i].etf_balance =
                    FMul(FAdd(PrevEtf(res_combo, i), DepositInYear(i)),
                         FAdd(One, etf_rate))
        /\ Len(res_combo) >= 1 =>
              alloc = 0 /\ remaining = deposit /\ excess = 0

C9_Witness ==
    /\ tg_target_first = 0 /\ tg_target_after = 0
    /\ annual_deposit > 0 /\ tg_rate > 0
    /\ Len(res_combo) >= 2
    /\ res_combo[2].deposit > 0
    /\ res_combo[2].etf_balance > 0

\* C10: with tg_rate <= etf_rate the total of the combination lies, in
\* every year, between the total of the Tagesgeld simulation and the total
\* of the ETF simulation.
C10_ComboBetweenPure ==
    tg_rate <= etf_rate =>
        \A i \in 1 .. Len(res_combo) :
            /\ res_tg[i].total_nominal <= res_combo[i].total_nominal
            /\ res_combo[i].total_nominal <= res_etf[i].total_nominal

====
